---- MODULE Spec2Model ----
(***************************************************************************)
(* Model of the windowing engine WindowedListState (react-windowed-list). *)
(*                                                                         *)
(* An engine is a record holding the fields of the class.  Every method    *)
(* of the class is an operator from an engine (and the method's            *)
(* arguments) to the engine after the call; every loop of the source is a  *)
(* RECURSIVE operator that walks the same indices in the same order.       *)
(*                                                                         *)
(* Numbers: all inputs are integers.  The only non-integer value the code  *)
(* can produce from integer inputs is paddingBottom, through the quotient  *)
(* totalHeight / length in calcPaddingBottom; paddingBottom is therefore   *)
(* kept as the double the code computes, rounded after every operation.    *)
(***************************************************************************)
EXTENDS Integers, Sequences, FiniteSets, TLC

\* ------------------------------------------------------------------ bounds
MaxLen == 3
MaxSteps == 4
MaxIndex == MaxLen           \* indices 0..MaxIndex may be reported; MaxIndex itself is never in range
Lengths == 0..MaxLen
ViewportHeights == {1, 3}
ScrollTops == {0, 1, 2, 3, 7}
ItemHeights == {1, 3}
OptionValues == {2}

\* ------------------------------------------------- numbers (JS arithmetic)
\* A JS number is an IEEE 754 double: 53 significant bits, every result rounded
\* to the nearest double, ties to the even one. A double is the record
\* [neg, int, frac]: the sign, the integer part of the magnitude, and the
\* hexadecimal digits of its fractional part (no trailing zero digit), the
\* digits toString(16) prints. Zero has neg = FALSE.
Precision == 53

Abs(n) == IF n < 0 THEN -n ELSE n

\* the number of bits of a natural number
RECURSIVE BitLength(_)
BitLength(n) == IF n = 0 THEN 0 ELSE 1 + BitLength(n \div 2)

\* the digits without trailing zeros
RECURSIVE StripZeros(_)
StripZeros(digits) ==
    IF digits # << >> /\ digits[Len(digits)] = 0
    THEN StripZeros(SubSeq(digits, 1, Len(digits) - 1)) ELSE digits

\* the number of zero bits before the first one bit of a fraction
RECURSIVE LeadingZeroBits(_)
LeadingZeroBits(digits) ==
    IF digits = << >> THEN 0
    ELSE IF Head(digits) = 0 THEN 4 + LeadingZeroBits(Tail(digits))
    ELSE 4 - BitLength(Head(digits))

\* the digits with step added to the last digit, and the carry out of the first
RECURSIVE AddAtEnd(_, _)
AddAtEnd(digits, step) ==
    IF digits = << >> THEN [digits |-> << >>, carry |-> 1]
    ELSE LET front == SubSeq(digits, 1, Len(digits) - 1)
             v == digits[Len(digits)] + step
         IN IF v < 16 THEN [digits |-> Append(front, v), carry |-> 0]
            ELSE LET r == AddAtEnd(front, 1)
                 IN [digits |-> Append(r.digits, v - 16), carry |-> r.carry]

\* 1 - 0.digits, for digits that end in a non-zero digit
Complement(digits) ==
    [i \in 1..Len(digits) |->
        IF i = Len(digits) THEN 16 - digits[i] ELSE 15 - digits[i]]

\* the double of a value that needs no rounding
Exact(neg, int, frac) ==
    LET f == StripZeros(frac)
    IN [neg |-> neg /\ (int # 0 \/ f # << >>), int |-> int, frac |-> f]

\* the double nearest to int + 0.frac: p fractional bits are kept, that is k
\* whole digits and the upper bits (multiples of unit) of digit k + 1; the bits
\* below are rounded to nearest, ties to even
Round(neg, int, frac) ==
    LET f == StripZeros(frac)
        p == IF int > 0 THEN Precision - BitLength(int)
             ELSE Precision + LeadingZeroBits(f)
        k == p \div 4
        unit == 2 ^ (4 - (p % 4))
        d == IF Len(f) > k THEN f[k + 1] ELSE 0
        hi == (d \div unit) * unit
        lo == d % unit
        rest == Len(f) > k + 1
        kept == IF unit = 16 THEN SubSeq(f, 1, k) ELSE Append(SubSeq(f, 1, k), hi)
        odd == IF unit < 16 THEN (d \div unit) % 2 = 1
               ELSE IF k > 0 THEN f[k] % 2 = 1 ELSE int % 2 = 1
        up == lo * 2 > unit \/ (lo * 2 = unit /\ (rest \/ odd))
        r == AddAtEnd(kept, IF unit = 16 THEN 1 ELSE unit)
    IN IF Len(f) <= k \/ (lo = 0 /\ ~rest) THEN Exact(neg, int, f)
       ELSE IF up THEN Exact(neg, int + r.carry, r.digits)
       ELSE Exact(neg, int, kept)

\* an integer as a double
Double(n) == Exact(n < 0, Abs(n), << >>)

\* a + n, for a double a and an integer n
DoubleAdd(a, n) ==
    IF a.frac = << >> THEN Double((IF a.neg THEN -a.int ELSE a.int) + n)
    ELSE LET whole == (IF a.neg THEN -a.int - 1 ELSE a.int) + n
             part == IF a.neg THEN Complement(a.frac) ELSE a.frac
         IN IF whole >= 0 THEN Round(FALSE, whole, part)
            ELSE Round(TRUE, -whole - 1, Complement(part))

\* the digits of r / l (r < l): as many as hold 54 significant bits, and a
\* last digit that stands for a remainder
RECURSIVE DivDigits(_, _, _)
DivDigits(r, l, significant) ==
    IF r = 0 THEN << >>
    ELSE IF significant > Precision THEN << 1 >>
    ELSE LET digit == (16 * r) \div l
         IN << digit >> \o
            DivDigits((16 * r) % l, l,
                      IF significant > 0 THEN significant + 4 ELSE BitLength(digit))

\* t / l, for integers t and l > 0
DoubleDiv(t, l) ==
    LET magnitude == Abs(t)
    IN Round(t < 0, magnitude \div l,
             DivDigits(magnitude % l, l, BitLength(magnitude \div l)))

\* digits times n, from the last digit on, and the carry out of the first
RECURSIVE MulDigits(_, _, _)
MulDigits(digits, n, carry) ==
    IF digits = << >> THEN [digits |-> << >>, carry |-> carry]
    ELSE LET v == digits[Len(digits)] * n + carry
             r == MulDigits(SubSeq(digits, 1, Len(digits) - 1), n, v \div 16)
         IN [digits |-> Append(r.digits, v % 16), carry |-> r.carry]

\* n * a, for an integer n and a double a
DoubleMul(n, a) ==
    LET m == MulDigits(a.frac, Abs(n), 0)
    IN Round(a.neg # (n < 0), a.int * Abs(n) + m.carry, m.digits)

RECURSIVE DigitsLess(_, _)
DigitsLess(f, g) ==
    IF g = << >> THEN FALSE
    ELSE IF f = << >> THEN TRUE
    ELSE IF Head(f) # Head(g) THEN Head(f) < Head(g)
    ELSE DigitsLess(Tail(f), Tail(g))

MagnitudeLess(a, b) == a.int < b.int \/ (a.int = b.int /\ DigitsLess(a.frac, b.frac))

\* a < b
DoubleLess(a, b) ==
    IF a.neg # b.neg THEN a.neg
    ELSE IF a.neg THEN MagnitudeLess(b, a) ELSE MagnitudeLess(a, b)

\* Math.max(0, a)
DoubleMax0(a) == IF a.neg THEN Double(0) ELSE a

\* ------------------------------------------------------------- the engine
\* An option of the constructor: a function that sets one field.
defaultHeight(height) == [field |-> "defaultHeight", value |-> height]

scrollTop(value) == [field |-> "scrollTop", value |-> value]

applyOption(s, o) ==
    IF o.field = "defaultHeight" THEN [s EXCEPT !.defaultHeight = o.value]
    ELSE [s EXCEPT !.scrollTop = o.value]

RECURSIVE applyOptions(_, _)
applyOptions(s, options) ==
    IF options = << >> THEN s
    ELSE applyOptions(applyOption(s, Head(options)), Tail(options))

constructor(options) ==
    LET s0 == [viewportHeight |-> 1, length |-> 0, defaultHeight |-> 0,
               visibleIndexTop |-> 0, visibleLength |-> 0,
               paddingTop |-> 0, paddingBottom |-> Double(0),
               scrollTop |-> 0,
               heights |-> [i \in {} |-> 0],
               totalHeight |-> 0,
               subscribers |-> << >>,
               timerId |-> FALSE,
               lastArgs |-> FALSE,
               visibleIndicesCalculated |-> FALSE]
        s1 == applyOptions(s0, options)
    IN [s1 EXCEPT !.visibleIndexTop = 0, !.visibleLength = 0,
                  !.paddingTop = 0, !.paddingBottom = Double(0),
                  !.scrollTop = 0,
                  !.totalHeight = s1.length * s1.defaultHeight,
                  !.visibleIndicesCalculated = FALSE]

\* handleChange is debounce(_handleChange, 0, {maxWait: 60}) of lodash. timerId
\* tells whether its timer is set, lastArgs whether a call waits for the timer.
\* With wait 0 every call is due at once: a call that finds no timer sets one
\* and waits for it (the leading edge, which does not invoke); a call that
\* finds the timer set restarts it and runs _handleChange before it returns.
handleChange(s) ==
    IF s.timerId THEN [s EXCEPT !.lastArgs = FALSE]
    ELSE [s EXCEPT !.timerId = TRUE, !.lastArgs = TRUE]

\* whether a call of handleChange() on s runs _handleChange before it returns
handleChangeInvokes(s) == s.timerId

\* the timer fires (the trailing edge): the timer is cleared
handleChangeFire(s) == [s EXCEPT !.timerId = FALSE, !.lastArgs = FALSE]

\* whether the timer, when it fires on s, runs _handleChange: only for a call
\* that still waits
handleChangeFireInvokes(s) == s.lastArgs

\* subscribers is a Set of callbacks: a sequence without repetition, in
\* insertion order (the order forEach visits)
subscribersHas(s, cb) == \E i \in 1..Len(s.subscribers) : s.subscribers[i] = cb

onChange(s, cb) ==
    IF subscribersHas(s, cb) THEN s
    ELSE [s EXCEPT !.subscribers = Append(s.subscribers, cb)]

\* mutant: the returned function leaves the Set as it is
unsubscribeKeeps(s, cb) == s

\* the function returned by onChange(cb)
unsubscribe(s, cb) ==
    [s EXCEPT !.subscribers = SelectSeq(s.subscribers, LAMBDA x : x # cb)]

\* the invocations cb(this) made by one run, in order: each callback with the
\* engine it is handed
_handleChange(s) ==
    [i \in 1..Len(s.subscribers) |-> [cb |-> s.subscribers[i], state |-> s]]

\* heights is the Map index => height: a function whose domain is the set of keys
heightsSet(heights, index, height) ==
    [i \in (DOMAIN heights) \cup {index} |-> IF i = index THEN height ELSE heights[i]]

getItemHeight(s, index) ==
    IF index > s.length - 1 THEN 0
    ELSE IF index \notin DOMAIN s.heights THEN s.defaultHeight
    ELSE s.heights[index]

RECURSIVE getItemRangeHeightLoop(_, _, _, _)
getItemRangeHeightLoop(s, i, endIndex, sum) ==
    IF i <= endIndex
    THEN getItemRangeHeightLoop(s, i + 1, endIndex, sum + getItemHeight(s, i))
    ELSE sum

getItemRangeHeight(s, startIndex, endIndex) ==
    getItemRangeHeightLoop(s, startIndex, endIndex, 0)

\* mutant: the walk goes on while the viewport is exactly full
RECURSIVE calcVisibleLengthLoopInclusive(_, _, _, _)
calcVisibleLengthLoopInclusive(s, i, visibleHeight, visibleLength) ==
    IF i < s.length /\ visibleHeight <= s.viewportHeight
    THEN calcVisibleLengthLoopInclusive(s, i + 1, visibleHeight + getItemHeight(s, i),
                                        visibleLength + 1)
    ELSE visibleLength

RECURSIVE calcVisibleLengthLoop(_, _, _, _)
calcVisibleLengthLoop(s, i, visibleHeight, visibleLength) ==
    IF i < s.length /\ visibleHeight < s.viewportHeight
    THEN calcVisibleLengthLoop(s, i + 1, visibleHeight + getItemHeight(s, i),
                               visibleLength + 1)
    ELSE visibleLength

calcVisibleLength(s) ==
    LET hiddenHeightTop == s.scrollTop - s.paddingTop
    IN calcVisibleLengthLoop(s, s.visibleIndexTop, hiddenHeightTop * (-1), 0)

\* mutant: an item that ends exactly at scrollTop stays in the window
RECURSIVE calculateTopLoopStrict(_, _, _, _)
calculateTopLoopStrict(s, i, visibleIndexTop, paddingTop) ==
    IF i < s.length /\ paddingTop + getItemHeight(s, i) < s.scrollTop
    THEN calculateTopLoopStrict(s, i + 1, visibleIndexTop + 1,
                                paddingTop + getItemHeight(s, i))
    ELSE [visibleIndexTop |-> visibleIndexTop, paddingTop |-> paddingTop]

\* the forward scan of calculateVisibleIndices, from index i
RECURSIVE calculateTopLoop(_, _, _, _)
calculateTopLoop(s, i, visibleIndexTop, paddingTop) ==
    IF i < s.length /\ paddingTop + getItemHeight(s, i) <= s.scrollTop
    THEN calculateTopLoop(s, i + 1, visibleIndexTop + 1,
                          paddingTop + getItemHeight(s, i))
    ELSE [visibleIndexTop |-> visibleIndexTop, paddingTop |-> paddingTop]

calculateVisibleIndices(s) ==
    LET top == IF s.scrollTop = 0
               THEN [visibleIndexTop |-> 0, paddingTop |-> 0]
               ELSE calculateTopLoop(s, 0, 0, 0)
        s1 == [s EXCEPT !.visibleIndexTop = top.visibleIndexTop,
                        !.paddingTop = top.paddingTop]
        s2 == [s1 EXCEPT !.visibleLength = calcVisibleLength(s1)]
        visibleIndexBottom == s2.visibleIndexTop + s2.visibleLength - 1
        s3 == [s2 EXCEPT
                 !.paddingBottom =
                     Double(getItemRangeHeight(s2, visibleIndexBottom + 1, s2.length - 1)),
                 !.visibleIndicesCalculated = TRUE]
    IN handleChange(s3)

\* mutant: no floor
clampPaddingBottomOff(s, paddingBottom, visibleIndexBottom) == paddingBottom

\* nItemsScrollBottom * (totalHeight / length) and the comparison with it.
\* With length = 0 the quotient is NaN or an infinity; nItemsScrollBottom is
\* then 0 (the window is empty at index 0), the product is NaN and the
\* comparison is false, so paddingBottom is kept.
clampPaddingBottom(s, paddingBottom, visibleIndexBottom) ==
    LET nItemsScrollBottom == s.length - visibleIndexBottom - 1
    IN IF s.length = 0 THEN paddingBottom
       ELSE LET minPaddingBottom ==
                    DoubleMul(nItemsScrollBottom, DoubleDiv(s.totalHeight, s.length))
            IN IF DoubleLess(paddingBottom, minPaddingBottom)
               THEN minPaddingBottom ELSE paddingBottom

calcPaddingBottom(s, visibleIndexBottom, prevVisibleIndexBottom) ==
    LET paddingBottom ==
          IF visibleIndexBottom = s.length - 1 THEN Double(0)
          ELSE IF visibleIndexBottom < prevVisibleIndexBottom
          THEN DoubleAdd(s.paddingBottom,
                   getItemRangeHeight(s, visibleIndexBottom + 1, prevVisibleIndexBottom))
          ELSE IF visibleIndexBottom > prevVisibleIndexBottom
          THEN DoubleMax0(DoubleAdd(s.paddingBottom,
                   0 - getItemRangeHeight(s, prevVisibleIndexBottom, visibleIndexBottom - 1)))
          ELSE s.paddingBottom
    IN clampPaddingBottom(s, paddingBottom, visibleIndexBottom)

\* mutant: no early return on an unchanged height
updateViewportHeightAlways(s, height) ==
    LET s1 == [s EXCEPT !.viewportHeight = height]
        prevVisibleLength == s1.visibleLength
        s2 == [s1 EXCEPT !.visibleLength = calcVisibleLength(s1)]
        prevVisibleIndexBottom == s2.visibleIndexTop + prevVisibleLength - 1
        visibleIndexBottom == s2.visibleIndexTop + s2.visibleLength - 1
        s3 == [s2 EXCEPT !.paddingBottom =
                  calcPaddingBottom(s2, visibleIndexBottom, prevVisibleIndexBottom)]
    IN handleChange(s3)

updateViewportHeight(s, height) ==
    IF height = s.viewportHeight THEN s
    ELSE LET s1 == [s EXCEPT !.viewportHeight = height]
             prevVisibleLength == s1.visibleLength
             s2 == [s1 EXCEPT !.visibleLength = calcVisibleLength(s1)]
             prevVisibleIndexBottom == s2.visibleIndexTop + prevVisibleLength - 1
             visibleIndexBottom == s2.visibleIndexTop + s2.visibleLength - 1
             s3 == [s2 EXCEPT !.paddingBottom =
                       calcPaddingBottom(s2, visibleIndexBottom, prevVisibleIndexBottom)]
         IN handleChange(s3)

\* mutant: removing items keeps the window as it was
updateLengthKeepsWindow(s, length) ==
    IF length = s.length THEN s
    ELSE LET prevLength == s.length
             totalHeightDelta == (length - prevLength) * s.defaultHeight
             s1 == [s EXCEPT !.length = length,
                             !.totalHeight = s.totalHeight + totalHeightDelta]
         IN IF length > prevLength
            THEN LET prevVisibleLength == s1.visibleLength
                     s2 == [s1 EXCEPT !.visibleLength = calcVisibleLength(s1)]
                     nNewVisible == s2.visibleLength - prevVisibleLength
                     heightDelta ==
                         getItemRangeHeight(s2, prevLength + nNewVisible, length - 1)
                     s3 == [s2 EXCEPT !.paddingBottom =
                               DoubleAdd(s2.paddingBottom, heightDelta)]
                 IN handleChange(s3)
            ELSE handleChange(s1)

updateLength(s, length) ==
    IF length = s.length THEN s
    ELSE LET prevLength == s.length
             totalHeightDelta == (length - prevLength) * s.defaultHeight
             s1 == [s EXCEPT !.length = length,
                             !.totalHeight = s.totalHeight + totalHeightDelta]
         IN IF length > prevLength
            THEN LET prevVisibleLength == s1.visibleLength
                     s2 == [s1 EXCEPT !.visibleLength = calcVisibleLength(s1)]
                     nNewVisible == s2.visibleLength - prevVisibleLength
                     heightDelta ==
                         getItemRangeHeight(s2, prevLength + nNewVisible, length - 1)
                     s3 == [s2 EXCEPT !.paddingBottom =
                               DoubleAdd(s2.paddingBottom, heightDelta)]
                 IN handleChange(s3)
            ELSE calculateVisibleIndices(s1)

\* mutant: the walk back moves the index and keeps the padding
RECURSIVE scrollUpLoopKeepsPadding(_, _, _, _)
scrollUpLoopKeepsPadding(s, i, visibleIndexTop, paddingTop) ==
    IF i >= 0 /\ paddingTop > s.scrollTop
    THEN scrollUpLoopKeepsPadding(s, i - 1, visibleIndexTop - 1, paddingTop)
    ELSE [visibleIndexTop |-> visibleIndexTop, paddingTop |-> paddingTop]

\* scrolled up: walk back from visibleIndexTop - 1
RECURSIVE scrollUpLoop(_, _, _, _)
scrollUpLoop(s, i, visibleIndexTop, paddingTop) ==
    IF i >= 0 /\ paddingTop > s.scrollTop
    THEN scrollUpLoop(s, i - 1, visibleIndexTop - 1, paddingTop - getItemHeight(s, i))
    ELSE [visibleIndexTop |-> visibleIndexTop, paddingTop |-> paddingTop]

\* mutant: the walk forward stops at an item that ends exactly at the offset
RECURSIVE scrollDownLoopStrict(_, _, _, _)
scrollDownLoopStrict(s, i, visibleIndexTop, paddingTop) ==
    IF i < s.length /\ paddingTop + getItemHeight(s, i) < s.scrollTop
    THEN scrollDownLoopStrict(s, i + 1, visibleIndexTop + 1,
                              paddingTop + getItemHeight(s, i))
    ELSE [visibleIndexTop |-> visibleIndexTop, paddingTop |-> paddingTop]

\* scrolled down: walk forward from visibleIndexTop
RECURSIVE scrollDownLoop(_, _, _, _)
scrollDownLoop(s, i, visibleIndexTop, paddingTop) ==
    IF i < s.length /\ paddingTop + getItemHeight(s, i) <= s.scrollTop
    THEN scrollDownLoop(s, i + 1, visibleIndexTop + 1,
                        paddingTop + getItemHeight(s, i))
    ELSE [visibleIndexTop |-> visibleIndexTop, paddingTop |-> paddingTop]

\* mutant: an unchanged offset returns before the first full computation
updateScrollPositionDeltaFirst(s, newScrollTop) ==
    IF newScrollTop = s.scrollTop THEN s ELSE
    LET prevScrollTop == s.scrollTop
        s1 == [s EXCEPT !.scrollTop = newScrollTop]
    IN IF ~s1.visibleIndicesCalculated THEN calculateVisibleIndices(s1)
       ELSE LET prevVisibleIndexTop == s1.visibleIndexTop
                prevVisibleLength == s1.visibleLength
                scrollTopDelta == newScrollTop - prevScrollTop
            IN IF scrollTopDelta = 0 THEN s1
               ELSE LET top == IF scrollTopDelta < 0
                               THEN scrollUpLoop(s1, s1.visibleIndexTop - 1,
                                                 s1.visibleIndexTop, s1.paddingTop)
                               ELSE scrollDownLoop(s1, s1.visibleIndexTop,
                                                   s1.visibleIndexTop, s1.paddingTop)
                        s2 == [s1 EXCEPT !.visibleIndexTop = top.visibleIndexTop,
                                         !.paddingTop = top.paddingTop]
                        s3 == [s2 EXCEPT !.visibleLength = calcVisibleLength(s2)]
                        prevVisibleIndexBottom ==
                            prevVisibleIndexTop + prevVisibleLength - 1
                        visibleIndexBottom ==
                            s3.visibleIndexTop + s3.visibleLength - 1
                        s4 == [s3 EXCEPT !.paddingBottom =
                                  calcPaddingBottom(s3, visibleIndexBottom,
                                                    prevVisibleIndexBottom)]
                    IN handleChange(s4)

updateScrollPosition(s, newScrollTop) ==
    LET prevScrollTop == s.scrollTop
        s1 == [s EXCEPT !.scrollTop = newScrollTop]
    IN IF ~s1.visibleIndicesCalculated THEN calculateVisibleIndices(s1)
       ELSE LET prevVisibleIndexTop == s1.visibleIndexTop
                prevVisibleLength == s1.visibleLength
                scrollTopDelta == newScrollTop - prevScrollTop
            IN IF scrollTopDelta = 0 THEN s1
               ELSE LET top == IF scrollTopDelta < 0
                               THEN scrollUpLoop(s1, s1.visibleIndexTop - 1,
                                                 s1.visibleIndexTop, s1.paddingTop)
                               ELSE scrollDownLoop(s1, s1.visibleIndexTop,
                                                   s1.visibleIndexTop, s1.paddingTop)
                        s2 == [s1 EXCEPT !.visibleIndexTop = top.visibleIndexTop,
                                         !.paddingTop = top.paddingTop]
                        s3 == [s2 EXCEPT !.visibleLength = calcVisibleLength(s2)]
                        prevVisibleIndexBottom ==
                            prevVisibleIndexTop + prevVisibleLength - 1
                        visibleIndexBottom ==
                            s3.visibleIndexTop + s3.visibleLength - 1
                        s4 == [s3 EXCEPT !.paddingBottom =
                                  calcPaddingBottom(s3, visibleIndexBottom,
                                                    prevVisibleIndexBottom)]
                    IN handleChange(s4)

\* mutant: scrollTop is left where it was
advanceScrollTopStays(paddingTop, st) == st

\* while (this.paddingTop > scrollTop) scrollTop++
RECURSIVE advanceScrollTop(_, _)
advanceScrollTop(paddingTop, st) ==
    IF paddingTop > st THEN advanceScrollTop(paddingTop, st + 1) ELSE st

\* mutant: the branch for an item below the window forgets the previous height
updateHeightAtIndexForgetsPrev(s, index, height) ==
    LET prevHeight == getItemHeight(s, index)
        prevVisibleIndexTop == s.visibleIndexTop
        prevVisibleLength == s.visibleLength
        prevVisibleIndexBottom == prevVisibleIndexTop + prevVisibleLength - 1
        s1 == [s EXCEPT !.heights = heightsSet(s.heights, index, height),
                        !.totalHeight = s.totalHeight - prevHeight + height]
    IN IF index > prevVisibleIndexBottom
       THEN handleChange([s1 EXCEPT !.paddingBottom =
                             DoubleAdd(s1.paddingBottom, height)])
       ELSE LET s2 == IF index < s1.visibleIndexTop
                      THEN LET paddingTop == s1.paddingTop - prevHeight + height
                           IN [s1 EXCEPT !.paddingTop = paddingTop,
                                         !.scrollTop =
                                             advanceScrollTop(paddingTop, s1.scrollTop)]
                      ELSE s1
                s3 == [s2 EXCEPT !.visibleLength = calcVisibleLength(s2)]
                visibleIndexBottom == s3.visibleIndexTop + s3.visibleLength - 1
                s4 == [s3 EXCEPT !.paddingBottom =
                          calcPaddingBottom(s3, visibleIndexBottom,
                                            prevVisibleIndexBottom)]
            IN handleChange(s4)

\* mutant: the first item of the window is treated as part of padding top
updateHeightAtIndexShiftsTop(s, index, height) ==
    LET prevHeight == getItemHeight(s, index)
        prevVisibleIndexTop == s.visibleIndexTop
        prevVisibleLength == s.visibleLength
        prevVisibleIndexBottom == prevVisibleIndexTop + prevVisibleLength - 1
        s1 == [s EXCEPT !.heights = heightsSet(s.heights, index, height),
                        !.totalHeight = s.totalHeight - prevHeight + height]
    IN IF index > prevVisibleIndexBottom
       THEN handleChange([s1 EXCEPT !.paddingBottom =
                             DoubleAdd(DoubleAdd(s1.paddingBottom, 0 - prevHeight), height)])
       ELSE LET s2 == IF index <= s1.visibleIndexTop
                      THEN LET paddingTop == s1.paddingTop - prevHeight + height
                           IN [s1 EXCEPT !.paddingTop = paddingTop,
                                         !.scrollTop =
                                             advanceScrollTop(paddingTop, s1.scrollTop)]
                      ELSE s1
                s3 == [s2 EXCEPT !.visibleLength = calcVisibleLength(s2)]
                visibleIndexBottom == s3.visibleIndexTop + s3.visibleLength - 1
                s4 == [s3 EXCEPT !.paddingBottom =
                          calcPaddingBottom(s3, visibleIndexBottom,
                                            prevVisibleIndexBottom)]
            IN handleChange(s4)

updateHeightAtIndex(s, index, height) ==
    LET prevHeight == getItemHeight(s, index)
        prevVisibleIndexTop == s.visibleIndexTop
        prevVisibleLength == s.visibleLength
        prevVisibleIndexBottom == prevVisibleIndexTop + prevVisibleLength - 1
        s1 == [s EXCEPT !.heights = heightsSet(s.heights, index, height),
                        !.totalHeight = s.totalHeight - prevHeight + height]
    IN IF index > prevVisibleIndexBottom
       THEN handleChange([s1 EXCEPT !.paddingBottom =
                             DoubleAdd(DoubleAdd(s1.paddingBottom, 0 - prevHeight), height)])
       ELSE LET s2 == IF index < s1.visibleIndexTop
                      THEN LET paddingTop == s1.paddingTop - prevHeight + height
                           IN [s1 EXCEPT !.paddingTop = paddingTop,
                                         !.scrollTop =
                                             advanceScrollTop(paddingTop, s1.scrollTop)]
                      ELSE s1
                s3 == [s2 EXCEPT !.visibleLength = calcVisibleLength(s2)]
                visibleIndexBottom == s3.visibleIndexTop + s3.visibleLength - 1
                s4 == [s3 EXCEPT !.paddingBottom =
                          calcPaddingBottom(s3, visibleIndexBottom,
                                            prevVisibleIndexBottom)]
            IN handleChange(s4)

\* ------------------------------------------------------------ the machine
VARIABLES
    state,     \* the engine
    state2,    \* a second engine, set up identically (testMutationSeries)
    last,      \* the last call: its name, its arguments, and whether the value
               \* passed was the one the engine already held
    steps,     \* number of calls made (under Spec: and of firings of the timer)
    mutations, \* the mutation calls made since the timer last fired: how many,
               \* and how many of them changed a public field
    invoked,   \* the callback invocations made by the latest step, in order
    callbacks, \* what the caller did last with each callback: nothing ("new"),
               \* onChange(cb) ("subscribed"), or the function onChange(cb)
               \* returned, with or without a notification pending at that call
    batch      \* for each callback: whether the caller has kept it subscribed
               \* since before the timer was last set, and the public fields it
               \* has been handed since then, in order

vars == << state, state2, last, steps, mutations, invoked, callbacks, batch >>

observer == << mutations, invoked, callbacks, batch >>

Callbacks == {1, 2}

OptionLists ==
    {<< >>} \cup {<< defaultHeight(d) >> : d \in OptionValues}
            \cup {<< scrollTop(v) >> : v \in OptionValues}
            \cup {<< defaultHeight(d), scrollTop(v) >> : d, v \in OptionValues}

Call(op, index, value, same) ==
    [op |-> op, index |-> index, value |-> value, same |-> same, options |-> << >>]

\* new State(...options)
New(options) == [Call("new", 0, 0, FALSE) EXCEPT !.options = options]

Init ==
    /\ \E options \in OptionLists :
          /\ state = constructor(options)
          /\ last = New(options)
    /\ state2 = state
    /\ steps = 0
    /\ mutations = [calls |-> 0, changing |-> 0]
    /\ invoked = << >>
    /\ callbacks = [cb \in Callbacks |-> "new"]
    /\ batch = [cb \in Callbacks |-> [whole |-> FALSE, handed |-> << >>]]

\* one call on the engine
Does(call, next) ==
    /\ steps < MaxSteps
    /\ last' = call
    /\ state' = next
    /\ steps' = steps + 1
    /\ UNCHANGED << state2, observer >>

CalculateVisibleIndices ==
    Does(Call("calculateVisibleIndices", 0, 0, FALSE), calculateVisibleIndices(state))

UpdateViewportHeight ==
    \E height \in ViewportHeights :
        Does(Call("updateViewportHeight", 0, height, height = state.viewportHeight),
             updateViewportHeight(state, height))

UpdateLength ==
    \E length \in Lengths :
        Does(Call("updateLength", 0, length, length = state.length),
             updateLength(state, length))

UpdateScrollPosition ==
    \E st \in ScrollTops :
        Does(Call("updateScrollPosition", 0, st, st = state.scrollTop),
             updateScrollPosition(state, st))

UpdateHeightAtIndex ==
    \E index \in 0..MaxIndex, height \in ItemHeights :
        Does(Call("updateHeightAtIndex", index, height,
                  height = getItemHeight(state, index)),
             updateHeightAtIndex(state, index, height))

\* the debounce timer fires, between two calls; it is one of the MaxSteps
\* steps of a run
HandleChangeFire ==
    /\ state.timerId
    /\ steps < MaxSteps
    /\ last' = Call("_handleChange", 0, 0, FALSE)
    /\ state' = handleChangeFire(state)
    /\ steps' = steps + 1
    /\ UNCHANGED << state2, observer >>

Next ==
    \/ CalculateVisibleIndices
    \/ UpdateViewportHeight
    \/ UpdateLength
    \/ UpdateScrollPosition
    \/ UpdateHeightAtIndex
    \/ HandleChangeFire

Spec == Init /\ [][Next]_vars

\* ------------------------------------------- two engines (testMutationSeries)
\* the same mutation on both engines; the second then recomputes in full.
\* Heights are reported for indices of the list only.
DoesBoth(call, next, next2) ==
    /\ steps < MaxSteps
    /\ last' = call
    /\ state' = next
    /\ state2' = calculateVisibleIndices(next2)
    /\ steps' = steps + 1
    /\ UNCHANGED observer

PairUpdateViewportHeight ==
    \E height \in ViewportHeights :
        DoesBoth(Call("updateViewportHeight", 0, height, height = state.viewportHeight),
                 updateViewportHeight(state, height),
                 updateViewportHeight(state2, height))

PairUpdateLength ==
    \E length \in Lengths :
        DoesBoth(Call("updateLength", 0, length, length = state.length),
                 updateLength(state, length), updateLength(state2, length))

PairUpdateScrollPosition ==
    \E st \in ScrollTops :
        DoesBoth(Call("updateScrollPosition", 0, st, st = state.scrollTop),
                 updateScrollPosition(state, st), updateScrollPosition(state2, st))

PairUpdateHeightAtIndex ==
    \E index \in 0..MaxIndex, height \in ItemHeights :
        /\ index < state.length
        /\ DoesBoth(Call("updateHeightAtIndex", index, height,
                      height = getItemHeight(state, index)),
                    updateHeightAtIndex(state, index, height),
                    updateHeightAtIndex(state2, index, height))

PairNext ==
    \/ PairUpdateViewportHeight
    \/ PairUpdateLength
    \/ PairUpdateScrollPosition
    \/ PairUpdateHeightAtIndex

PairSpec == Init /\ [][PairNext]_vars

\* ------------------------------------ tall items, heights reported in range
\* The engine as a host drives it: heights are reported for indices of the
\* list only, and unmeasured items are estimated taller than they turn out to
\* be. One call more than in Spec.
TallOptionValues == {5}
TallLengths == {0, 3}
TallScrollTops == {0, 5}
TallItemHeights == {1}
TallSteps == MaxSteps + 1

TallInit ==
    /\ \E d \in TallOptionValues :
          /\ state = constructor(<< defaultHeight(d) >>)
          /\ last = New(<< defaultHeight(d) >>)
    /\ state2 = state
    /\ steps = 0
    /\ mutations = [calls |-> 0, changing |-> 0]
    /\ invoked = << >>
    /\ callbacks = [cb \in Callbacks |-> "new"]
    /\ batch = [cb \in Callbacks |-> [whole |-> FALSE, handed |-> << >>]]

TallDoes(call, next) ==
    /\ steps < TallSteps
    /\ last' = call
    /\ state' = next
    /\ steps' = steps + 1
    /\ UNCHANGED << state2, observer >>

TallCalculateVisibleIndices ==
    TallDoes(Call("calculateVisibleIndices", 0, 0, FALSE),
             calculateVisibleIndices(state))

TallUpdateViewportHeight ==
    \E height \in ViewportHeights :
        TallDoes(Call("updateViewportHeight", 0, height, height = state.viewportHeight),
                 updateViewportHeight(state, height))

TallUpdateLength ==
    \E length \in TallLengths :
        TallDoes(Call("updateLength", 0, length, length = state.length),
                 updateLength(state, length))

TallUpdateScrollPosition ==
    \E st \in TallScrollTops :
        TallDoes(Call("updateScrollPosition", 0, st, st = state.scrollTop),
                 updateScrollPosition(state, st))

TallUpdateHeightAtIndex ==
    \E index \in 0..MaxIndex, height \in TallItemHeights :
        /\ index < state.length
        /\ TallDoes(Call("updateHeightAtIndex", index, height,
                          height = getItemHeight(state, index)),
                     updateHeightAtIndex(state, index, height))

TallNext ==
    \/ TallCalculateVisibleIndices
    \/ TallUpdateViewportHeight
    \/ TallUpdateLength
    \/ TallUpdateScrollPosition
    \/ TallUpdateHeightAtIndex

TallSpec == TallInit /\ [][TallNext]_vars

\* ------------------------------------ a fixed list, scrolled and resized
\* A list is set up (its length, and heights of its items, all >= 1), the
\* window is computed in full, and from then on the engine is only scrolled
\* and its viewport resized. steps counts the calls made after the full
\* computation.
SetUpCalls == {"new", "updateLength", "updateHeightAtIndex"}

FixedInit ==
    /\ \E d \in OptionValues :
          /\ state = constructor(<< defaultHeight(d) >>)
          /\ last = New(<< defaultHeight(d) >>)
    /\ state2 = state
    /\ steps = 0
    /\ mutations = [calls |-> 0, changing |-> 0]
    /\ invoked = << >>
    /\ callbacks = [cb \in Callbacks |-> "new"]
    /\ batch = [cb \in Callbacks |-> [whole |-> FALSE, handed |-> << >>]]

\* a call of the set-up
SetsUp(call, next) ==
    /\ last.op \in SetUpCalls
    /\ last' = call
    /\ state' = next
    /\ UNCHANGED << state2, steps, observer >>

FixedUpdateLength ==
    \E length \in Lengths :
        SetsUp(Call("updateLength", 0, length, length = state.length),
               updateLength(state, length))

FixedUpdateHeightAtIndex ==
    \E index \in 0..MaxIndex, height \in ItemHeights :
        /\ index < state.length
        /\ SetsUp(Call("updateHeightAtIndex", index, height,
                        height = getItemHeight(state, index)),
                   updateHeightAtIndex(state, index, height))

FixedCalculateVisibleIndices ==
    SetsUp(Call("calculateVisibleIndices", 0, 0, FALSE), calculateVisibleIndices(state))

\* a call on the list once set up
FixedDoes(call, next) ==
    /\ last.op \notin SetUpCalls
    /\ steps < MaxSteps
    /\ last' = call
    /\ state' = next
    /\ steps' = steps + 1
    /\ UNCHANGED << state2, observer >>

FixedUpdateScrollPosition ==
    \E st \in ScrollTops :
        FixedDoes(Call("updateScrollPosition", 0, st, st = state.scrollTop),
                  updateScrollPosition(state, st))

FixedUpdateViewportHeight ==
    \E height \in ViewportHeights :
        FixedDoes(Call("updateViewportHeight", 0, height, height = state.viewportHeight),
                  updateViewportHeight(state, height))

FixedNext ==
    \/ FixedUpdateLength
    \/ FixedUpdateHeightAtIndex
    \/ FixedCalculateVisibleIndices
    \/ FixedUpdateScrollPosition
    \/ FixedUpdateViewportHeight

FixedSpec == FixedInit /\ [][FixedNext]_vars

\* ------------------------------------ subscribers and the deferred notification
NotifyLengths == {0, 2}
NotifyScrollTops == {0, 3}
NotifyIndices == {0, 1}
NotifyHeights == {3}

\* the public fields of an engine
PublicFields(s) ==
    << s.viewportHeight, s.length, s.defaultHeight, s.scrollTop,
       s.visibleIndexTop, s.visibleLength, s.paddingTop, s.paddingBottom >>

\* the callbacks the caller has subscribed and not unsubscribed
Subscribed == {cb \in Callbacks : callbacks[cb] = "subscribed"}

\* the public fields the invocations inv hand to cb, in order
HandedTo(inv, cb) ==
    LET mine == SelectSeq(inv, LAMBDA e : e.cb = cb)
    IN [i \in 1..Len(mine) |-> PublicFields(mine[i].state)]

\* batch after the invocations inv
Hand(inv) ==
    [cb \in Callbacks |-> [batch[cb] EXCEPT !.handed = @ \o HandedTo(inv, cb)]]

\* whether the call that takes an engine with its timer cleared to fired
\* reaches this.handleChange(): it then sets the timer
Reaches(fired) == fired.timerId

\* one mutation on the engine, with callbacks subscribed: next is the engine
\* after the call, reached whether the call reaches this.handleChange(). With
\* the timer set, handleChange() runs _handleChange on the engine as the call
\* leaves it.
NotifyDoes(call, next, reached) ==
    LET runs == IF reached /\ handleChangeInvokes(state)
                THEN _handleChange(next) ELSE << >>
    IN /\ steps < MaxSteps
       /\ last' = call
       /\ state' = next
       /\ steps' = steps + 1
       /\ mutations' =
              [calls |-> mutations.calls + 1,
               changing |-> IF PublicFields(next) # PublicFields(state)
                            THEN mutations.changing + 1 ELSE mutations.changing]
       /\ invoked' = runs
       /\ batch' = IF reached /\ ~state.timerId
                   THEN [cb \in Callbacks |->
                            [whole |-> cb \in Subscribed, handed |-> << >>]]
                   ELSE Hand(runs)
       /\ UNCHANGED << state2, callbacks >>

NotifyCalculateVisibleIndices ==
    NotifyDoes(Call("calculateVisibleIndices", 0, 0, FALSE),
               calculateVisibleIndices(state),
               Reaches(calculateVisibleIndices(handleChangeFire(state))))

NotifyUpdateViewportHeight ==
    \E height \in ViewportHeights :
        NotifyDoes(Call("updateViewportHeight", 0, height, height = state.viewportHeight),
                   updateViewportHeight(state, height),
                   Reaches(updateViewportHeight(handleChangeFire(state), height)))

NotifyUpdateLength ==
    \E length \in NotifyLengths :
        NotifyDoes(Call("updateLength", 0, length, length = state.length),
                   updateLength(state, length),
                   Reaches(updateLength(handleChangeFire(state), length)))

NotifyUpdateScrollPosition ==
    \E st \in NotifyScrollTops :
        NotifyDoes(Call("updateScrollPosition", 0, st, st = state.scrollTop),
                   updateScrollPosition(state, st),
                   Reaches(updateScrollPosition(handleChangeFire(state), st)))

NotifyUpdateHeightAtIndex ==
    \E index \in NotifyIndices, height \in NotifyHeights :
        NotifyDoes(Call("updateHeightAtIndex", index, height,
                        height = getItemHeight(state, index)),
                   updateHeightAtIndex(state, index, height),
                   Reaches(updateHeightAtIndex(handleChangeFire(state), index, height)))

\* onChange(cb)
OnChange ==
    \E cb \in Callbacks :
        /\ steps < MaxSteps
        /\ last' = Call("onChange", cb, 0, subscribersHas(state, cb))
        /\ state' = onChange(state, cb)
        /\ steps' = steps + 1
        /\ invoked' = << >>
        /\ callbacks' = [callbacks EXCEPT ![cb] = "subscribed"]
        /\ UNCHANGED << state2, mutations, batch >>

\* a call of the function that an earlier onChange(cb) returned
Unsubscribe ==
    \E cb \in Callbacks :
        /\ steps < MaxSteps
        /\ callbacks[cb] # "new"
        /\ last' = Call("unsubscribe", cb, 0, ~subscribersHas(state, cb))
        /\ state' = unsubscribe(state, cb)
        /\ steps' = steps + 1
        /\ invoked' = << >>
        /\ callbacks' =
               IF callbacks[cb] # "subscribed" THEN callbacks
               ELSE [callbacks EXCEPT
                       ![cb] = IF state.lastArgs THEN "unsubscribed while pending"
                               ELSE "unsubscribed"]
        /\ batch' = [batch EXCEPT ![cb].whole = FALSE]
        /\ UNCHANGED << state2, mutations >>

\* the debounce timer fires: _handleChange calls the subscribers if a call
\* still waits. The step records how many mutation calls were made since the
\* timer last fired (index) and how many of them changed a public field (value).
NotifyFire ==
    LET runs == IF handleChangeFireInvokes(state)
                THEN _handleChange(handleChangeFire(state)) ELSE << >>
    IN /\ state.timerId
       /\ last' = Call("_handleChange", mutations.calls, mutations.changing, FALSE)
       /\ state' = handleChangeFire(state)
       /\ invoked' = runs
       /\ batch' = Hand(runs)
       /\ mutations' = [calls |-> 0, changing |-> 0]
       /\ UNCHANGED << state2, steps, callbacks >>

NotifyNext ==
    \/ NotifyCalculateVisibleIndices
    \/ NotifyUpdateViewportHeight
    \/ NotifyUpdateLength
    \/ NotifyUpdateScrollPosition
    \/ NotifyUpdateHeightAtIndex
    \/ OnChange
    \/ Unsubscribe
    \/ NotifyFire

\* the timer of the debounce (wait 0, maxWait 60) fires once the calling code
\* has returned: it is not postponed for ever
NotifySpec == Init /\ [][NotifyNext]_vars /\ WF_vars(NotifyFire)

\* ------------------------------------------------- vocabulary of the claims
\* h(i): the measured height of index i if recorded, defaultHeight otherwise
HeightOf(s, i) == IF i \in DOMAIN s.heights THEN s.heights[i] ELSE s.defaultHeight

\* the sum of h(i) over a <= i <= b
RECURSIVE SumHeights(_, _, _)
SumHeights(s, a, b) == IF a > b THEN 0 ELSE HeightOf(s, b) + SumHeights(s, a, b - 1)

\* a height lookup: zero beyond length - 1
LookupHeight(s, i) == IF i >= 0 /\ i < s.length THEN HeightOf(s, i) ELSE 0

Min(S) == CHOOSE x \in S : \A y \in S : x <= y

VisibleIndexBottom(s) == s.visibleIndexTop + s.visibleLength - 1

\* the four derived fields of two engines agree
SameWindow(a, b) ==
    /\ a.visibleIndexTop = b.visibleIndexTop
    /\ a.visibleLength = b.visibleLength
    /\ a.paddingTop = b.paddingTop
    /\ a.paddingBottom = b.paddingBottom

\* the derived fields of s are what a full recompute would give
Consistent(s) == SameWindow(s, calculateVisibleIndices(s))

\* the number of leading indices whose cumulative height stays <= scrollTop
LeadingCount(s) ==
    Cardinality({k \in 1..s.length :
                    \A j \in 1..k : SumHeights(s, 0, j - 1) <= s.scrollTop})

\* the least k whose k items from visibleIndexTop fill the viewport, else all
LeastVisibleLength(s) ==
    LET rest == s.length - s.visibleIndexTop
        fills == {k \in 0..rest :
                    SumHeights(s, s.visibleIndexTop, s.visibleIndexTop + k - 1)
                        - (s.scrollTop - s.paddingTop) >= s.viewportHeight}
    IN IF fills = {} THEN rest ELSE Min(fills)

\* ------------------------------------------------------------------ claims
\* C1: two engines set up identically, the second calling
\* calculateVisibleIndices() after each mutation, agree after every step on
\* visibleIndexTop, visibleLength, paddingTop and paddingBottom.
C1_FullVsIncremental == SameWindow(state, state2)

\* C2: after calculateVisibleIndices(): visibleIndexTop and paddingTop are 0 at
\* scrollTop 0, otherwise visibleIndexTop is the number of leading indices whose
\* cumulative height stays <= scrollTop; paddingTop is the sum of h(i) over
\* i < visibleIndexTop; paddingBottom is the sum of h(i) over the indices from
\* visibleIndexTop + visibleLength to length - 1.
C2_CalculateVisibleIndices ==
    last.op = "calculateVisibleIndices" =>
        /\ state.scrollTop = 0 => state.visibleIndexTop = 0 /\ state.paddingTop = 0
        /\ state.scrollTop # 0 => state.visibleIndexTop = LeadingCount(state)
        /\ state.paddingTop = SumHeights(state, 0, state.visibleIndexTop - 1)
        /\ state.paddingBottom =
               Double(SumHeights(state, VisibleIndexBottom(state) + 1, state.length - 1))

C2_Witness ==
    /\ last.op = "calculateVisibleIndices"
    /\ state.scrollTop > 0
    /\ state.visibleIndexTop > 0
    /\ state.visibleLength > 0
    /\ DoubleLess(Double(0), state.paddingBottom)
    /\ \E i, j \in 0..(state.length - 1) : HeightOf(state, i) # HeightOf(state, j)

\* the engine of the tests' first example, set up as the test does: length 1000,
\* viewportHeight 400, defaultHeight 100, scrollTop 0 (where the full recompute
\* puts visibleIndexTop and paddingTop at 0 before it calls the helper)
ExampleEngine ==
    [constructor(<< defaultHeight(100) >>) EXCEPT !.length = 1000, !.viewportHeight = 400]

\* C3: the visible-length helper returns the smallest count k such that the
\* heights of the k items from visibleIndexTop, minus scrollTop - paddingTop,
\* reach viewportHeight, or length - visibleIndexTop when no k does; the first
\* item of the window is counted even when fully clipped; the example engine
\* has visibleIndexTop 0 and visibleLength 4.
C3_VisibleLength ==
    /\ calcVisibleLength(state) = LeastVisibleLength(state)
    /\ state.visibleIndexTop < state.length => calcVisibleLength(state) >= 1
    /\ ExampleEngine.visibleIndexTop = 0
    /\ calcVisibleLength(ExampleEngine) = 4

\* the first item of the window is fully clipped, and counted
C3_Witness ==
    /\ last.op \in {"updateHeightAtIndex", "updateScrollPosition", "updateViewportHeight"}
    /\ state.visibleIndexTop < state.length
    /\ HeightOf(state, state.visibleIndexTop) > 0
    /\ HeightOf(state, state.visibleIndexTop) <= state.scrollTop - state.paddingTop
    /\ state.visibleLength >= 2
    /\ state.visibleLength = calcVisibleLength(state)

\* C4: from a state whose derived fields are those of a full recompute, after
\* updateScrollPosition(s) the derived fields equal a full recompute at s.
C4_ScrollEquivalence ==
    [][(Consistent(state) /\ last'.op = "updateScrollPosition")
          => Consistent(state')]_vars

\* C5: from such a state, after updateHeightAtIndex(i, h) with 0 <= i < length
\* the derived fields equal a full recompute from the resulting fields.
C5_HeightUpdateEquivalence ==
    [][(Consistent(state) /\ last'.op = "updateHeightAtIndex"
           /\ last'.index < state.length)
          => Consistent(state')]_vars

\* C6: from such a state, after updateViewportHeight(v) the derived fields
\* equal a full recompute with viewportHeight = v.
C6_ViewportEquivalence ==
    [][(Consistent(state) /\ last'.op = "updateViewportHeight")
          => Consistent(state')]_vars

\* C7: from such a state, after updateLength(n) the derived fields equal a
\* full recompute with length = n; on removal the result is exactly that of
\* calculateVisibleIndices().
C7_LengthEquivalence ==
    [][(Consistent(state) /\ last'.op = "updateLength")
          => /\ Consistent(state')
             /\ last'.value < state.length
                   => state' = calculateVisibleIndices(
                                  [state EXCEPT
                                     !.length = last'.value,
                                     !.totalHeight = state.totalHeight
                                        + (last'.value - state.length) * state.defaultHeight])
       ]_vars

\* C8: whenever the window's last index is length - 1, paddingBottom is 0.
C8_EndOfListClamp ==
    VisibleIndexBottom(state) = state.length - 1 => state.paddingBottom = Double(0)

\* C9: updateHeightAtIndex(i, h) with i strictly below the window leaves
\* visibleIndexTop, visibleLength, paddingTop and scrollTop unchanged and
\* changes paddingBottom and totalHeight each by h minus the previous height
\* of item i (a height lookup: zero beyond length - 1).
C9_HeightUpdateLocality ==
    [][(last'.op = "updateHeightAtIndex" /\ last'.index > VisibleIndexBottom(state))
          => LET delta == last'.value - LookupHeight(state, last'.index)
             IN /\ state'.visibleIndexTop = state.visibleIndexTop
                /\ state'.visibleLength = state.visibleLength
                /\ state'.paddingTop = state.paddingTop
                /\ state'.scrollTop = state.scrollTop
                /\ state'.paddingBottom = DoubleAdd(state.paddingBottom, delta)
                /\ state'.totalHeight = state.totalHeight + delta
       ]_vars

\* an item of the list below the window got another height
C9_Witness ==
    /\ last.op = "updateHeightAtIndex"
    /\ ~last.same
    /\ last.index > VisibleIndexBottom(state)
    /\ last.index < state.length
    /\ state.visibleLength > 0

NoOpCalls == {"updateViewportHeight", "updateLength", "updateScrollPosition"}

\* C10 as stated: updateViewportHeight, updateLength and updateScrollPosition
\* called with the value the engine holds leave every field unchanged and
\* schedule no notification.
C10_NoOpStability ==
    [][(last'.op \in NoOpCalls /\ last'.same) => state' = state]_vars

\* C10, amended: the same, for updateScrollPosition only once
\* visibleIndicesCalculated is true.
C10_NoOpStabilityCalculated ==
    [][(last'.op \in NoOpCalls /\ last'.same
           /\ (last'.op = "updateScrollPosition" => state.visibleIndicesCalculated))
          => state' = state]_vars

\* updateScrollPosition(scrollTop) on a calculated engine; no notification is
\* pending, so the call did not go through calculateVisibleIndices
C10_Witness ==
    /\ last.op = "updateScrollPosition"
    /\ last.same
    /\ state.visibleIndicesCalculated
    /\ ~state.timerId
    /\ state.length > 0

\* C11: updateHeightAtIndex(i, h) with 0 <= i < length and h the current height
\* of item i (measured, or defaultHeight when unmeasured) changes none of
\* totalHeight, scrollTop, visibleIndexTop, visibleLength, paddingTop,
\* paddingBottom and schedules no notification.
C11_HeightUpdateIdempotent ==
    [][(last'.op = "updateHeightAtIndex" /\ last'.index < state.length
           /\ last'.value = HeightOf(state, last'.index))
          => /\ state'.totalHeight = state.totalHeight
             /\ state'.scrollTop = state.scrollTop
             /\ SameWindow(state', state)
             /\ state'.timerId = state.timerId
             /\ state'.lastArgs = state.lastArgs
       ]_vars

Mutations ==
    {"calculateVisibleIndices", "updateViewportHeight", "updateLength",
     "updateScrollPosition", "updateHeightAtIndex"}

\* the number of invocations of cb among inv
InvocationsOf(inv, cb) == Cardinality({i \in 1..Len(inv) : inv[i].cb = cb})

\* C12: the state-changing mutations (one or more) made before the pending
\* notification fires result in exactly one invocation of each subscribed
\* callback, and that invocation is handed the fields the last of them left:
\* once the timer has fired after one or more mutation calls that each changed
\* a public field, a callback subscribed since before the timer was set has
\* been handed the engine once, with the fields it now has.
C12_Coalescing ==
    (last.op = "_handleChange" /\ last.value >= 1 /\ last.index = last.value)
        => \A cb \in Callbacks :
              batch[cb].whole => batch[cb].handed = << PublicFields(state) >>

\* no call waits for the timer, and the latest step has invoked every
\* subscribed callback
Delivered ==
    /\ ~state.lastArgs
    /\ \A cb \in Subscribed : InvocationsOf(invoked, cb) >= 1

\* C13: a mutation that alters visibleIndexTop, visibleLength, paddingTop or
\* paddingBottom invokes no callback before it returns (its fields are readable
\* before any subscriber is notified) and leaves the timer set; a call that
\* waits for the timer is eventually delivered to every subscribed callback.
C13_NotificationLiveness ==
    /\ [][(last'.op \in Mutations /\ ~SameWindow(state', state))
             => (state'.timerId /\ invoked' = << >>)]_vars
    /\ (state.lastArgs ~> Delivered)

\* C14: a callback whose unsubscribe function has been called is not invoked
\* again, also when a notification was pending at that call; the callbacks
\* that stay subscribed are invoked, once each, by every notification: the one
\* the timer delivers and the one a mutation makes while the timer is set.
C14_Unsubscribe ==
    [][/\ \A i \in 1..Len(invoked') : callbacks[invoked'[i].cb] = "subscribed"
       /\ (\/ last'.op = "_handleChange" /\ state.lastArgs
           \/ last'.op \in Mutations /\ state.timerId /\ state' # state)
             => \A cb \in Subscribed : InvocationsOf(invoked', cb) = 1
      ]_vars

\* two callbacks subscribed, one mutation, one callback unsubscribed while the
\* notification is pending, then the notification: the other callback is invoked
C14_Witness ==
    /\ last.op = "_handleChange"
    /\ steps = 4
    /\ \E cb \in Callbacks : callbacks[cb] = "unsubscribed while pending"
    /\ \E cb \in Callbacks : callbacks[cb] = "subscribed"
    /\ Len(invoked) = 1

\* the value the options given to the constructor set field to, if any
OptionGiven(options, field) == \E i \in 1..Len(options) : options[i].field = field

OptionValue(options, field) ==
    LET is == {i \in 1..Len(options) : options[i].field = field}
    IN options[CHOOSE i \in is : \A j \in is : j <= i].value

\* C15: right after construction, scrollTop is the value of the scrollTop
\* option and defaultHeight the value of the defaultHeight option where given;
\* otherwise defaultHeight = 0; viewportHeight = 1, length = 0 and
\* totalHeight = length * defaultHeight.
C15_ConstructionOptions ==
    last.op = "new" =>
        /\ OptionGiven(last.options, "scrollTop")
              => state.scrollTop = OptionValue(last.options, "scrollTop")
        /\ state.defaultHeight =
              IF OptionGiven(last.options, "defaultHeight")
              THEN OptionValue(last.options, "defaultHeight") ELSE 0
        /\ state.viewportHeight = 1
        /\ state.length = 0
        /\ state.totalHeight = state.length * state.defaultHeight

\* C16: in every reachable state 0 <= visibleIndexTop, visibleLength >= 0 and
\* visibleIndexTop + visibleLength <= length.
C16_WindowBounds ==
    /\ 0 <= state.visibleIndexTop
    /\ state.visibleLength >= 0
    /\ state.visibleIndexTop + state.visibleLength <= state.length

\* the list shrank while scrolled to its end, and the window followed
C16_Witness ==
    /\ last.op = "updateLength"
    /\ ~last.same
    /\ state.length > 0
    /\ state.scrollTop > state.totalHeight
    /\ state.visibleIndexTop = state.length
    /\ state.visibleLength = 0
    /\ DOMAIN state.heights # {}

\* C17: paddingTop >= 0 and paddingBottom >= 0 in every reachable state.
C17_NonNegativePadding ==
    /\ state.paddingTop >= 0
    /\ ~state.paddingBottom.neg

\* C18: totalHeight is the sum of h(i) over 0 <= i < length.
C18_TotalHeightTracksList ==
    state.totalHeight = SumHeights(state, 0, state.length - 1)

\* C19: paddingTop plus the heights of the rendered indices plus paddingBottom
\* equals totalHeight.
C19_HeightAccounting ==
    DoubleAdd(state.paddingBottom,
              state.paddingTop
                + SumHeights(state, state.visibleIndexTop, VisibleIndexBottom(state)))
        = Double(state.totalHeight)

\* paddingBottom >= (number of items below the window) * (totalHeight / length)
AverageHeightFloor(s) ==
    ~DoubleLess(s.paddingBottom,
                DoubleMul(s.length - s.visibleIndexTop - s.visibleLength,
                          DoubleDiv(s.totalHeight, s.length)))

\* C20 as stated: in every reachable state with length > 0 paddingBottom is at
\* least the number of items below the window times totalHeight / length.
C20_AverageHeightFloor ==
    state.length > 0 => AverageHeightFloor(state)

\* the call ends in calcPaddingBottom
ThroughCalcPaddingBottom ==
    \/ last'.op = "updateViewportHeight" /\ ~last'.same
    \/ last'.op = "updateScrollPosition" /\ ~last'.same
          /\ state.visibleIndicesCalculated
    \/ last'.op = "updateHeightAtIndex" /\ last'.index <= VisibleIndexBottom(state)

\* C20, amended: with length > 0 the floor holds directly after a call that
\* ends in calcPaddingBottom: updateViewportHeight with a new height,
\* updateScrollPosition with a new offset on an engine whose indices were
\* calculated, updateHeightAtIndex on an item in or above the window.
C20_FloorAfterCalcPaddingBottom ==
    [][(ThroughCalcPaddingBottom /\ state'.length > 0)
          => AverageHeightFloor(state')]_vars

\* an incremental scroll whose paddingBottom is the floor itself, not an integer
C20_Witness ==
    /\ last.op = "updateScrollPosition"
    /\ ~last.same
    /\ state.paddingBottom.frac # << >>
    /\ state.visibleLength > 0
    /\ state.visibleIndexTop > 0
    /\ state.paddingBottom =
          DoubleMul(state.length - state.visibleIndexTop - state.visibleLength,
                    DoubleDiv(state.totalHeight, state.length))

\* the sum of the height lookups of the indices a .. b
RECURSIVE SumLookup(_, _, _)
SumLookup(s, a, b) == IF a > b THEN 0 ELSE LookupHeight(s, b) + SumLookup(s, a, b - 1)

DoubleMax(a, b) == IF DoubleLess(a, b) THEN b ELSE a

\* C21: an operation that adjusts paddingBottom by the bottom-padding rule and
\* moves the window's bottom index from b to b2 leaves paddingBottom = 0 when
\* b2 = length - 1, and otherwise the larger of the floor
\* (length - b2 - 1) * totalHeight / length and the adjusted value: the old
\* paddingBottom plus the heights of b2+1 .. b when b2 < b, the old
\* paddingBottom minus the heights of b+1 .. b2 (not below 0) when b2 > b, the
\* old paddingBottom when b2 = b.
C21_BottomPaddingRule ==
    [][ThroughCalcPaddingBottom
          => LET b == VisibleIndexBottom(state)
                 b2 == VisibleIndexBottom(state')
                 floor == DoubleDiv((state'.length - b2 - 1) * state'.totalHeight,
                                    state'.length)
                 adjusted ==
                     IF b2 < b
                     THEN DoubleAdd(state.paddingBottom, SumLookup(state', b2 + 1, b))
                     ELSE IF b2 > b
                     THEN DoubleMax0(DoubleAdd(state.paddingBottom,
                                            0 - SumLookup(state', b + 1, b2)))
                     ELSE state.paddingBottom
             IN IF b2 = state'.length - 1 THEN state'.paddingBottom = Double(0)
                ELSE state'.paddingBottom = DoubleMax(floor, adjusted)
       ]_vars

Max(a, b) == IF a >= b THEN a ELSE b

\* C22: updateHeightAtIndex(i, h) with i < visibleIndexTop changes paddingTop
\* by h minus the previous height of item i, leaves visibleIndexTop unchanged
\* and sets scrollTop to the larger of its old value and the new paddingTop, so
\* that paddingTop <= scrollTop afterwards.
C22_HeightUpdateAboveWindow ==
    [][(last'.op = "updateHeightAtIndex" /\ last'.index < state.visibleIndexTop)
          => /\ state'.paddingTop =
                   state.paddingTop + last'.value - HeightOf(state, last'.index)
             /\ state'.visibleIndexTop = state.visibleIndexTop
             /\ state'.scrollTop = Max(state.scrollTop, state'.paddingTop)
             /\ state'.paddingTop <= state'.scrollTop
       ]_vars

\* an item above the window grew and pushed scrollTop to an offset no scroll
\* call has set
C22_Witness ==
    /\ last.op = "updateHeightAtIndex"
    /\ ~last.same
    /\ last.index < state.visibleIndexTop
    /\ state.scrollTop = state.paddingTop
    /\ state.scrollTop \notin ScrollTops

\* C23: updateHeightAtIndex(i, h) with i >= length only records the height of
\* index i: totalHeight, paddingTop, paddingBottom, visibleIndexTop,
\* visibleLength and scrollTop are unchanged, and a lookup of i gives 0.
C23_OutOfRangeHeightUpdate ==
    [][(last'.op = "updateHeightAtIndex" /\ last'.index >= state.length)
          => /\ state'.heights = heightsSet(state.heights, last'.index, last'.value)
             /\ state'.totalHeight = state.totalHeight
             /\ SameWindow(state', state)
             /\ state'.scrollTop = state.scrollTop
             /\ getItemHeight(state', last'.index) = 0
       ]_vars

\* C24: while visibleIndicesCalculated is false, updateScrollPosition(s) gives
\* exactly the state calculateVisibleIndices() gives at scrollTop = s (also
\* when s is the current scrollTop), its call of handleChange() included:
\* visibleIndicesCalculated is then true and the timer of the notification is
\* set. No call resets visibleIndicesCalculated.
C24_FirstScrollDelegates ==
    [][/\ (last'.op = "updateScrollPosition" /\ ~state.visibleIndicesCalculated)
             => /\ state' = calculateVisibleIndices(
                               [state EXCEPT !.scrollTop = last'.value])
                /\ state'.scrollTop = last'.value
                /\ state'.visibleIndicesCalculated
                /\ state'.timerId
       /\ state.visibleIndicesCalculated => state'.visibleIndicesCalculated
      ]_vars

\* the list grew, then the first scroll put the window below index 0
C24_Witness ==
    /\ last.op = "updateScrollPosition"
    /\ steps = 2
    /\ state.length > 0
    /\ state.visibleIndexTop > 0
    /\ state.visibleLength > 0
    /\ state.visibleIndicesCalculated
    /\ state.timerId

\* C25: updateHeightAtIndex(i, h) with i inside the window leaves
\* visibleIndexTop, paddingTop, scrollTop, length and viewportHeight unchanged;
\* of the engine's fields only visibleLength, paddingBottom, totalHeight and
\* the recorded height of i may change (and handleChange() is called once).
C25_HeightUpdateInsideWindow ==
    [][(last'.op = "updateHeightAtIndex"
           /\ state.visibleIndexTop <= last'.index
           /\ last'.index <= VisibleIndexBottom(state))
          => state' = [state EXCEPT
                         !.visibleLength = state'.visibleLength,
                         !.paddingBottom = state'.paddingBottom,
                         !.totalHeight = state'.totalHeight,
                         !.heights = heightsSet(state.heights, last'.index, last'.value),
                         !.timerId = TRUE,
                         !.lastArgs = ~state.timerId]
       ]_vars

\* an item of a scrolled window, whose first item is partly clipped, got
\* another height
C25_Witness ==
    /\ last.op = "updateHeightAtIndex"
    /\ ~last.same
    /\ state.visibleIndexTop > 0
    /\ state.visibleIndexTop <= last.index
    /\ last.index <= VisibleIndexBottom(state)
    /\ state.visibleLength >= 2
    /\ state.scrollTop > state.paddingTop

\* C26: in every reachable state paddingTop is the sum of h(i) over the indices
\* i < visibleIndexTop, and paddingTop <= scrollTop.
C26_PaddingTopExact ==
    /\ state.paddingTop = SumHeights(state, 0, state.visibleIndexTop - 1)
    /\ state.paddingTop <= state.scrollTop

\* an incremental scroll (paddingBottom is no integer) left the window below a
\* measured item, its first item partly clipped
C26_Witness ==
    /\ last.op = "updateScrollPosition"
    /\ ~last.same
    /\ state.paddingBottom.frac # << >>
    /\ state.visibleIndexTop > 0
    /\ state.paddingTop < state.scrollTop
    /\ \E i \in DOMAIN state.heights :
          i < state.visibleIndexTop /\ state.heights[i] # state.defaultHeight

\* visibleIndexTop, paddingTop and visibleLength of two engines agree
SameIndexWindow(a, b) ==
    /\ a.visibleIndexTop = b.visibleIndexTop
    /\ a.paddingTop = b.paddingTop
    /\ a.visibleLength = b.visibleLength

\* C27: for a list whose item heights are all >= 1, from the state produced by
\* calculateVisibleIndices(), after any sequence of updateScrollPosition and
\* updateViewportHeight calls visibleIndexTop, paddingTop and visibleLength
\* are those of a full recompute at the final scrollTop and viewportHeight.
C27_IndexWindowIndependent ==
    last.op \notin SetUpCalls
        => SameIndexWindow(state, calculateVisibleIndices(state))

\* a list of items of different heights, scrolled down and back up, with a
\* paddingBottom that is not the one of a full recompute
C27_Witness ==
    /\ last.op = "updateScrollPosition"
    /\ ~last.same
    /\ steps >= 2
    /\ state.visibleIndexTop > 0
    /\ state.visibleIndexTop + state.visibleLength < state.length
    /\ state.paddingBottom # calculateVisibleIndices(state).paddingBottom
    /\ \E i, j \in 0..(state.length - 1) : HeightOf(state, i) # HeightOf(state, j)

====
